---------------------------- MODULE Spec2Model ----------------------------
(***************************************************************************)
(* A model of the SolarSim gravity-and-integration engine:                 *)
(*   solarsim/models/celestial_body.py   (CelestialBody)                   *)
(*   solarsim/simulation/simulator.py    (Simulator)                       *)
(*   solarsim/config/constants.py        (constants, PLANET_CONFIGS)       *)
(*                                                                         *)
(* Arithmetic.  The program computes in IEEE doubles; the model computes   *)
(* in integers of a coarse unit system (lengths in model length units,     *)
(* times in half days, masses in model mass units).  Every operation keeps *)
(* the shape it has in the source (same operands, same order, same         *)
(* guards); division truncates toward zero, which, like IEEE division, is  *)
(* symmetric under negation, and sqrt is the integer square root.  The     *)
(* last-bit rounding of doubles is not represented.                        *)
(***************************************************************************)
EXTENDS Integers, Sequences, FiniteSets, TLC

VARIABLES
    bodies,            \* Simulator.bodies: the ordered list of CelestialBody
    time_speed_index,  \* Simulator.time_speed_index
    paused,            \* Simulator.paused
    running,           \* Simulator.running
    pc,                \* where the program is: setup / events / update / loop / render / done / crashed
    rep,               \* Simulator.update: repetitions of the outer loop still to run
    idx,               \* Simulator.update: index of the body the inner loop updates next
    error,             \* the exception that ended the program, or "none"
    steps,             \* history: whole steps completed
    constructed,       \* history: each body as its constructor left it
    hist,              \* history: per body, every position it held after an update
    refreshes,         \* history: per body, derived-quantity refreshes in its last update_position
    contrib,           \* history: the last update_position call: who, each force summed,
                       \*   whether it moved the body, and where the body was before
    frame_start,       \* history: the body list when the current update call began
    frame_count,       \* history: update_count of the current update call
    initialized        \* history: initialize_solar_system has run

vars == <<bodies, time_speed_index, paused, running, pc, rep, idx, error, steps,
          constructed, hist, refreshes, contrib, frame_start, frame_count, initialized>>

----------------------------------------------------------------------------
(* Bounds of the model *)

\* update starts a frame only while fewer than MaxSteps steps are done
MaxSteps == 3
\* the same, for the long runs that fill the orbit trail
MaxTrailSteps == 1003
\* add_body calls before the run
MaxAdded == 1

----------------------------------------------------------------------------
(* constants.py, in model units.  The unit of time is half a day, so that   *)
(* TIMESTEP, one day, is 2; lengths and masses are scaled down to keep      *)
(* every product within TLC's integers, which fixes G.                      *)

\* constants.py: AU, G, TIMESTEP
AU == 8
G == 3
TIMESTEP == 2
\* celestial_body.py line 140: 24 * 3600, the seconds of a day
SECONDS_PER_DAY == 2
\* celestial_body.py line 137: the literal 1.98892e30, also the sun's mass in
\* PLANET_CONFIGS
SUN_MASS == 12
\* celestial_body.py lines 175-176: the literal 1000
ORBIT_LIMIT == 1000
DEFAULT_TIME_SPEED_INDEX == 2
\* multipliers in tenths: 0.0, 0.5, 1.0, 2.0, 5.0
TIME_SPEEDS == <<0, 5, 10, 20, 50>>
\* the multiplier 1 of "time_multiplier > 1", in tenths
SPEED_UNIT == 10
\* TIME_SPEEDS[i] with the source's indices, which start at 0
TimeSpeed(i) == TIME_SPEEDS[i + 1]
\* 2 * math.pi as the fraction 44 / 7
TWO_PI_NUM == 44
TWO_PI_DEN == 7
\* semi_major_axis is kept in hundredths of an AU, so that, as in the source,
\* it is above 0 exactly when distance_to_sun is
SMA_SCALE == 100

----------------------------------------------------------------------------
(* Arithmetic *)

Abs(a) == IF a < 0 THEN -a ELSE a

\* float division a / b for b # 0, truncated toward zero
Div(a, b) ==
    LET q == Abs(a) \div Abs(b)
    IN  IF (a < 0) = (b < 0) THEN q ELSE -q

RECURSIVE SqrtBetween(_, _, _)
SqrtBetween(n, lo, hi) ==
    IF lo >= hi THEN lo
    ELSE LET mid == (lo + hi + 1) \div 2
         IN  IF mid * mid <= n THEN SqrtBetween(n, mid, hi)
                               ELSE SqrtBetween(n, lo, mid - 1)

\* math.sqrt: the integer square root
Sqrt(n) == SqrtBetween(n, 0, IF n < 46340 THEN n ELSE 46340)

\* math.atan2(dy, dx): the angle, represented by the direction it points in
Atan2(dy, dx) == [dx |-> dx, dy |-> dy, r |-> Sqrt(dx * dx + dy * dy)]
\* math.cos(theta) * f  and  math.sin(theta) * f
CosTimes(theta, f) == Div(theta.dx * f, theta.r)
SinTimes(theta, f) == Div(theta.dy * f, theta.r)

\* int(time_multiplier), the multiplier being in tenths
IntOf(m) == m \div SPEED_UNIT

----------------------------------------------------------------------------
(* celestial_body.py *)

\* CelestialBody.__init__
CelestialBody(x, y, radius, color, mass, name, is_sun, x_vel, y_vel) ==
    [x |-> x, y |-> y, radius |-> radius, color |-> color, mass |-> mass,
     name |-> name, is_sun |-> is_sun, x_vel |-> x_vel, y_vel |-> y_vel,
     orbit |-> << >>,
     distance_to_sun |-> 0, orbital_period |-> 0, semi_major_axis |-> 0,
     velocity |-> 0]

\* create_celestial_body: x_vel is left at its default
create_celestial_body(name, x, y, radius, color, mass, is_sun, y_vel) ==
    CelestialBody(x, y, radius, color, mass, name, is_sun, 0, y_vel)

\* CelestialBody._calculate_orbital_properties
calculate_orbital_properties(self) ==
    LET velocity == Sqrt(self.x_vel * self.x_vel + self.y_vel * self.y_vel)
        semi_major_axis == Div(self.distance_to_sun * SMA_SCALE, AU)
        d == self.distance_to_sun
        period_seconds ==
            Div(TWO_PI_NUM * Sqrt(Div(d * d * d, G * SUN_MASS)), TWO_PI_DEN)
    IN  [self EXCEPT
            !.velocity = velocity,
            !.semi_major_axis = semi_major_axis,
            !.orbital_period =
                IF semi_major_axis > 0 THEN Div(period_seconds, SECONDS_PER_DAY)
                                       ELSE @]

\* mutant: the force with the mass of self squared, the other's left out
ForceComponentsOwnMass(self, other, distance_x, distance_y, distance) ==
    [fx |-> CosTimes(Atan2(distance_y, distance_x),
                     Div(G * self.mass * self.mass, distance * distance)),
     fy |-> SinTimes(Atan2(distance_y, distance_x),
                     Div(G * self.mass * self.mass, distance * distance))]

\* the force of calculate_attraction at a distance other than 0
\* (celestial_body.py lines 114-122)
ForceComponents(self, other, distance_x, distance_y, distance) ==
    [fx |-> CosTimes(Atan2(distance_y, distance_x),
                     Div(G * self.mass * other.mass, distance * distance)),
     fy |-> SinTimes(Atan2(distance_y, distance_x),
                     Div(G * self.mass * other.mass, distance * distance))]

\* mutant: calculate_attraction without the test for distance 0, so that the
\* division by distance**2 raises
AttractionAtUnguarded(self, other, distance_x, distance_y, distance) ==
    [self |-> IF other.is_sun
              THEN IF ~self.is_sun
                   THEN calculate_orbital_properties(
                            [self EXCEPT !.distance_to_sun = distance])
                   ELSE [self EXCEPT !.distance_to_sun = distance]
              ELSE self,
     refreshed |-> other.is_sun /\ ~self.is_sun,
     raised |-> distance = 0,
     force |-> IF distance = 0
               THEN [fx |-> 0, fy |-> 0]
               ELSE ForceComponents(self, other, distance_x, distance_y, distance)]

\* calculate_attraction once the distance is known: the side effects on self,
\* then the force.  raised: the call ended in ZeroDivisionError.
\* refreshed: it ran _calculate_orbital_properties.
AttractionAt(self, other, distance_x, distance_y, distance) ==
    [self |-> IF other.is_sun
              THEN IF ~self.is_sun
                   THEN calculate_orbital_properties(
                            [self EXCEPT !.distance_to_sun = distance])
                   ELSE [self EXCEPT !.distance_to_sun = distance]
              ELSE self,
     refreshed |-> other.is_sun /\ ~self.is_sun,
     raised |-> FALSE,
     force |-> IF distance = 0
               THEN [fx |-> 0, fy |-> 0]
               ELSE ForceComponents(self, other, distance_x, distance_y, distance)]

\* CelestialBody.calculate_attraction: the force on self from other
calculate_attraction(self, other) ==
    AttractionAt(self, other, other.x - self.x, other.y - self.y,
                 Sqrt((other.x - self.x) * (other.x - self.x)
                      + (other.y - self.y) * (other.y - self.y)))

\* update_position adds one body's force: acc carries self, the force summed
\* so far, the refreshes counted and each body's contribution
Accumulate(acc, j, other, r) ==
    [self |-> r.self,
     total_fx |-> acc.total_fx + r.force.fx,
     total_fy |-> acc.total_fy + r.force.fy,
     raised |-> r.raised,
     refreshes |-> acc.refreshes + (IF r.refreshed THEN 1 ELSE 0),
     forces |-> Append(acc.forces,
                       [other |-> j, fx |-> r.force.fx, fy |-> r.force.fy,
                        coincident |-> other.x = acc.self.x /\ other.y = acc.self.y])]

\* the loop of update_position over the other bodies, from list index j on
RECURSIVE SumAttraction(_, _, _, _)
SumAttraction(bs, i, j, acc) ==
    IF j > Len(bs) \/ acc.raised THEN acc
    ELSE IF j = i THEN SumAttraction(bs, i, j + 1, acc)
    ELSE SumAttraction(bs, i, j + 1,
             Accumulate(acc, j, bs[j], calculate_attraction(acc.self, bs[j])))

\* mutant: the trail is never cut
TrimOrbitNever(orbit) == orbit

\* mutant: orbit[:1000], which keeps the oldest entries
TrimOrbitOldest(orbit) ==
    IF Len(orbit) > ORBIT_LIMIT THEN SubSeq(orbit, 1, ORBIT_LIMIT) ELSE orbit

\* the trail after recording: orbit[-1000:] once it is longer than 1000
TrimOrbit(orbit) ==
    IF Len(orbit) > ORBIT_LIMIT
    THEN SubSeq(orbit, Len(orbit) - ORBIT_LIMIT + 1, Len(orbit))
    ELSE orbit

\* mutant: the position is advanced with the velocity the call started with
MovedWithOldVelocity(self, x_vel, y_vel) ==
    [self EXCEPT !.x_vel = x_vel, !.y_vel = y_vel,
                 !.x = @ + self.x_vel * TIMESTEP,
                 !.y = @ + self.y_vel * TIMESTEP,
                 !.orbit = TrimOrbit(Append(@, <<self.x + self.x_vel * TIMESTEP,
                                                 self.y + self.y_vel * TIMESTEP>>))]

\* mutant: the acceleration is kept in self.mass
MovedOverwritesMass(self, x_vel, y_vel) ==
    [self EXCEPT !.x_vel = x_vel, !.y_vel = y_vel,
                 !.x = @ + x_vel * TIMESTEP,
                 !.y = @ + y_vel * TIMESTEP,
                 !.mass = x_vel - self.x_vel,
                 !.orbit = TrimOrbit(Append(@, <<self.x + x_vel * TIMESTEP,
                                                 self.y + y_vel * TIMESTEP>>))]

\* the body after update_position moved it: velocity first, then position
\* with the new velocity, then the trail
Moved(self, x_vel, y_vel) ==
    [self EXCEPT !.x_vel = x_vel, !.y_vel = y_vel,
                 !.x = @ + x_vel * TIMESTEP,
                 !.y = @ + y_vel * TIMESTEP,
                 !.orbit = TrimOrbit(Append(@, <<self.x + x_vel * TIMESTEP,
                                                 self.y + y_vel * TIMESTEP>>))]

\* update_position after its force loop returned s
Integrate(bs, i, s) ==
    IF s.raised \/ bs[i].mass = 0
    THEN \* total_fx / self.mass raises; the refreshes already happened
         [bodies |-> [bs EXCEPT ![i] = s.self], raised |-> TRUE,
          moved |-> FALSE, refreshes |-> s.refreshes, forces |-> s.forces]
    ELSE [bodies |-> [bs EXCEPT ![i] =
                         Moved(s.self,
                               s.self.x_vel + Div(s.total_fx, bs[i].mass) * TIMESTEP,
                               s.self.y_vel + Div(s.total_fy, bs[i].mass) * TIMESTEP)],
          raised |-> FALSE, moved |-> TRUE, refreshes |-> s.refreshes,
          forces |-> s.forces]

\* mutant: the forces are taken from the list as it was when update began,
\* a snapshot, and not from the list being updated
update_position_from_snapshot(bs, i) ==
    IF bs[i].is_sun
    THEN [bodies |-> bs, raised |-> FALSE, moved |-> FALSE,
          refreshes |-> 0, forces |-> << >>]
    ELSE Integrate(bs, i,
             SumAttraction(frame_start, i, 1,
                 [self |-> bs[i], total_fx |-> 0, total_fy |-> 0, raised |-> FALSE,
                  refreshes |-> 0, forces |-> << >>]))

\* mutant: update_position without the early return for the sun
update_position_sun_moves(bs, i) ==
    Integrate(bs, i,
        SumAttraction(bs, i, 1,
            [self |-> bs[i], total_fx |-> 0, total_fy |-> 0, raised |-> FALSE,
             refreshes |-> 0, forces |-> << >>]))

\* CelestialBody.update_position, called on bs[i] with the list bs
update_position(bs, i) ==
    IF bs[i].is_sun
    THEN [bodies |-> bs, raised |-> FALSE, moved |-> FALSE,
          refreshes |-> 0, forces |-> << >>]
    ELSE Integrate(bs, i,
             SumAttraction(bs, i, 1,
                 [self |-> bs[i], total_fx |-> 0, total_fy |-> 0, raised |-> FALSE,
                  refreshes |-> 0, forces |-> << >>]))

----------------------------------------------------------------------------
(* constants.py: PLANET_CONFIGS, in insertion order, in model units *)

PLANET_CONFIGS == <<
    [name |-> "sun",     x |-> 0,   y |-> 0, radius |-> 30, color |-> "YELLOW",
     mass |-> SUN_MASS, is_sun |-> TRUE,  y_vel |-> 0],
    [name |-> "mercury", x |-> 3,   y |-> 0, radius |-> 8,  color |-> "DARK_GREY",
     mass |-> 2,        is_sun |-> FALSE, y_vel |-> -6],
    [name |-> "venus",   x |-> 6,   y |-> 0, radius |-> 14, color |-> "WHITE",
     mass |-> 6,        is_sun |-> FALSE, y_vel |-> -4],
    [name |-> "earth",   x |-> -AU, y |-> 0, radius |-> 16, color |-> "BLUE",
     mass |-> 8,        is_sun |-> FALSE, y_vel |-> 4],
    [name |-> "mars",    x |-> -12, y |-> 0, radius |-> 12, color |-> "RED",
     mass |-> 4,        is_sun |-> FALSE, y_vel |-> 3] >>

----------------------------------------------------------------------------
(* Inputs of add_body *)

AddX == {0, 3}
AddY == {0}
AddMass == {0, 2}
AddYVel == {1}
AddRadius == {5}
AddColor == {"ORANGE"}
AddName == {"probe"}

----------------------------------------------------------------------------
(* simulator.py *)

\* Simulator.__init__
Init ==
    /\ bodies = << >>
    /\ time_speed_index = DEFAULT_TIME_SPEED_INDEX
    /\ paused = FALSE
    /\ running = FALSE
    /\ pc = "setup"
    /\ rep = 0
    /\ idx = 0
    /\ error = "none"
    /\ steps = 0
    /\ constructed = << >>
    /\ hist = << >>
    /\ refreshes = << >>
    /\ contrib = [self |-> 0, forces |-> << >>, moved |-> FALSE,
                  before |-> [x |-> 0, y |-> 0, x_vel |-> 0, y_vel |-> 0]]
    /\ frame_start = << >>
    /\ frame_count = 0
    /\ initialized = FALSE

\* the bodies initialize_solar_system creates
ConfiguredBodies ==
    [k \in 1..Len(PLANET_CONFIGS) |->
        LET config == PLANET_CONFIGS[k]
        IN  create_celestial_body(config.name, config.x, config.y, config.radius,
                                  config.color, config.mass, config.is_sun,
                                  config.y_vel)]

\* what initialize_solar_system does to the state
InstallSolarSystem ==
    /\ bodies' = ConfiguredBodies
    /\ constructed' = ConfiguredBodies
    /\ hist' = [k \in 1..Len(ConfiguredBodies) |-> << >>]
    /\ refreshes' = [k \in 1..Len(ConfiguredBodies) |-> 0]
    /\ initialized' = TRUE

\* Simulator.initialize_solar_system, called before the run
initialize_solar_system ==
    /\ pc = "setup"
    /\ ~initialized
    /\ InstallSolarSystem
    /\ UNCHANGED <<time_speed_index, paused, running, pc, rep, idx, error, steps,
                   contrib, frame_start, frame_count>>

\* mutant: the new body is put at the head of the list
AddedAtHead(bs, name, x, y, radius, color, mass, is_sun, y_vel) ==
    <<create_celestial_body(name, x, y, radius, color, mass, is_sun, y_vel)>> \o bs

\* the list after add_body appended the body it created
AddedTo(bs, name, x, y, radius, color, mass, is_sun, y_vel) ==
    Append(bs, create_celestial_body(name, x, y, radius, color, mass, is_sun, y_vel))

\* Simulator.add_body, called before run or after it returned
add_body ==
    /\ pc \in {"setup", "done"}
    /\ Len(bodies) < MaxAdded + (IF initialized THEN Len(PLANET_CONFIGS) ELSE 0)
    /\ \E name \in AddName, x \in AddX, y \in AddY, radius \in AddRadius,
          color \in AddColor, mass \in AddMass, is_sun \in BOOLEAN, y_vel \in AddYVel :
          /\ bodies' = AddedTo(bodies, name, x, y, radius, color, mass, is_sun, y_vel)
          /\ constructed' = Append(constructed,
                 create_celestial_body(name, x, y, radius, color, mass, is_sun, y_vel))
    /\ hist' = Append(hist, << >>)
    /\ refreshes' = Append(refreshes, 0)
    /\ UNCHANGED <<time_speed_index, paused, running, pc, rep, idx, error, steps,
                   contrib, frame_start, frame_count, initialized>>

\* Simulator.run, up to the first frame: the solar system is created if the
\* list is empty
run ==
    /\ pc = "setup"
    /\ running' = TRUE
    /\ pc' = "events"
    /\ IF bodies = << >>
       THEN InstallSolarSystem
       ELSE UNCHANGED <<bodies, constructed, hist, refreshes, initialized>>
    /\ UNCHANGED <<time_speed_index, paused, rep, idx, error, steps,
                   contrib, frame_start, frame_count>>

\* the Slower button
decrease_speed ==
    /\ pc = "events"
    /\ time_speed_index' = (IF time_speed_index - 1 > 0 THEN time_speed_index - 1 ELSE 0)
    /\ UNCHANGED <<bodies, paused, running, pc, rep, idx, error, steps, constructed,
                   hist, refreshes, contrib, frame_start, frame_count, initialized>>

\* mutant: Faster without the min() against the last index
increase_speed_unclamped ==
    /\ pc = "events"
    /\ time_speed_index' = time_speed_index + 1
    /\ UNCHANGED <<bodies, paused, running, pc, rep, idx, error, steps, constructed,
                   hist, refreshes, contrib, frame_start, frame_count, initialized>>

\* the Faster button
increase_speed ==
    /\ pc = "events"
    /\ time_speed_index' = (IF time_speed_index + 1 < Len(TIME_SPEEDS) - 1
                            THEN time_speed_index + 1 ELSE Len(TIME_SPEEDS) - 1)
    /\ UNCHANGED <<bodies, paused, running, pc, rep, idx, error, steps, constructed,
                   hist, refreshes, contrib, frame_start, frame_count, initialized>>

\* the Pause button
toggle_pause ==
    /\ pc = "events"
    /\ paused' = ~paused
    /\ UNCHANGED <<bodies, time_speed_index, running, pc, rep, idx, error, steps,
                   constructed, hist, refreshes, contrib, frame_start, frame_count,
                   initialized>>

\* handle_events returns: True at the end of the event queue, False on QUIT
handle_events ==
    /\ pc = "events"
    /\ \E quit \in BOOLEAN : running' = ~quit
    /\ pc' = "update"
    /\ UNCHANGED <<bodies, time_speed_index, paused, rep, idx, error, steps,
                   constructed, hist, refreshes, contrib, frame_start, frame_count,
                   initialized>>

\* mutant: one step whatever the multiplier
UpdateCountOne(time_multiplier) == 1

\* update_count of Simulator.update for a multiplier other than 0
UpdateCount(time_multiplier) ==
    IF time_multiplier > SPEED_UNIT THEN IntOf(time_multiplier) ELSE 1

\* mutant: update without the tests for paused and for a multiplier of 0
update_never_skips(bound) ==
    /\ pc = "update"
    /\ steps < bound
    /\ IF bodies = << >>
       THEN /\ pc' = "render"
            /\ rep' = 0
            /\ idx' = 0
            /\ frame_count' = 0
       ELSE /\ pc' = "loop"
            /\ rep' = UpdateCount(TimeSpeed(time_speed_index))
            /\ idx' = 1
            /\ frame_count' = UpdateCount(TimeSpeed(time_speed_index))
    /\ frame_start' = bodies
    /\ UNCHANGED <<bodies, time_speed_index, paused, running, error, steps,
                   constructed, hist, refreshes, contrib, initialized>>

\* Simulator.update up to its loops; bound caps the steps of a behaviour
update(bound) ==
    /\ pc = "update"
    /\ steps < bound
    /\ LET time_multiplier == TimeSpeed(time_speed_index)
       IN  IF paused \/ time_multiplier = 0 \/ bodies = << >>
           THEN /\ pc' = "render"
                /\ rep' = 0
                /\ idx' = 0
                /\ frame_count' = 0
           ELSE /\ pc' = "loop"
                /\ rep' = UpdateCount(time_multiplier)
                /\ idx' = 1
                /\ frame_count' = UpdateCount(time_multiplier)
    /\ frame_start' = bodies
    /\ UNCHANGED <<bodies, time_speed_index, paused, running, error, steps,
                   constructed, hist, refreshes, contrib, initialized>>

\* mutant: the frame is drawn after each body's update, inside the loops
LoopAfterDrawsInside(r, i, n) ==
    [rep |-> 0, idx |-> 0, pc |-> "render"]

\* mutant: the body list is exhausted by the first pass, as an iterator would
\* be, and the later repetitions update nothing
LoopAfterExhausted(r, i, n) ==
    IF i < n THEN [rep |-> r, idx |-> i + 1, pc |-> "loop"]
    ELSE [rep |-> 0, idx |-> 0, pc |-> "render"]

\* the two nested for loops of update after one body's update_position:
\* the next body, else the next repetition, else the loops are over
LoopAfter(r, i, n) ==
    IF i < n THEN [rep |-> r, idx |-> i + 1, pc |-> "loop"]
    ELSE IF r > 1 THEN [rep |-> r - 1, idx |-> 1, pc |-> "loop"]
    ELSE [rep |-> 0, idx |-> 0, pc |-> "render"]

\* what one update_position call, with result u, does to the state
AfterUpdatePosition(u, after) ==
    /\ bodies' = u.bodies
    /\ refreshes' = [refreshes EXCEPT ![idx] = u.refreshes]
    /\ contrib' = [self |-> idx, forces |-> u.forces, moved |-> u.moved,
                   before |-> [x |-> bodies[idx].x, y |-> bodies[idx].y,
                               x_vel |-> bodies[idx].x_vel,
                               y_vel |-> bodies[idx].y_vel]]
    /\ hist' = IF u.moved
               THEN [hist EXCEPT ![idx] = Append(@, <<u.bodies[idx].x, u.bodies[idx].y>>)]
               ELSE hist
    /\ IF u.raised
       THEN /\ pc' = "crashed"
            /\ error' = "ZeroDivisionError"
            /\ UNCHANGED <<rep, idx, steps>>
       ELSE /\ pc' = after.pc
            /\ rep' = after.rep
            /\ idx' = after.idx
            /\ steps' = IF idx = Len(bodies) THEN steps + 1 ELSE steps
            /\ error' = error

\* one iteration of the inner loop: body.update_position(self.bodies)
update_position_step ==
    /\ pc = "loop"
    /\ AfterUpdatePosition(update_position(bodies, idx),
                           LoopAfter(rep, idx, Len(bodies)))
    /\ UNCHANGED <<time_speed_index, paused, running, constructed, frame_start,
                   frame_count, initialized>>

\* Simulator.render, and the loop test of run
render ==
    /\ pc = "render"
    /\ pc' = IF running THEN "events" ELSE "done"
    /\ UNCHANGED <<bodies, time_speed_index, paused, running, rep, idx, error, steps,
                   constructed, hist, refreshes, contrib, frame_start, frame_count,
                   initialized>>

Next ==
    \/ initialize_solar_system
    \/ add_body
    \/ run
    \/ decrease_speed
    \/ increase_speed
    \/ toggle_pause
    \/ handle_events
    \/ update(MaxSteps)
    \/ update_position_step
    \/ render

Spec == Init /\ [][Next]_vars

----------------------------------------------------------------------------
(* Long runs: the run loop with no button pressed, on a system built with   *)
(* add_body alone, far enough apart that the bodies drift without meeting.  *)

TrailSun == create_celestial_body("star", 0, 0, 30, "YELLOW", SUN_MASS, TRUE, 0)
TrailProbe == create_celestial_body("probe", 300, -1000, 5, "ORANGE", 1, FALSE, 1)
TrailSystems == { <<TrailProbe>>, <<TrailSun, TrailProbe>> }
TrailSpeeds == {1, 2, 3, 4}

\* after Simulator(), the add_body calls, clicks on Faster and the start of run
InitTrail ==
    /\ bodies \in TrailSystems
    /\ time_speed_index \in TrailSpeeds
    /\ paused = FALSE
    /\ running = TRUE
    /\ pc = "events"
    /\ rep = 0
    /\ idx = 0
    /\ error = "none"
    /\ steps = 0
    /\ constructed = bodies
    /\ hist = [k \in 1..Len(bodies) |-> << >>]
    /\ refreshes = [k \in 1..Len(bodies) |-> 0]
    /\ contrib = [self |-> 0, forces |-> << >>, moved |-> FALSE,
                  before |-> [x |-> 0, y |-> 0, x_vel |-> 0, y_vel |-> 0]]
    /\ frame_start = << >>
    /\ frame_count = 0
    /\ initialized = FALSE

NextTrail ==
    \/ handle_events
    \/ update(MaxTrailSteps)
    \/ update_position_step
    \/ render

SpecTrail == InitTrail /\ [][NextTrail]_vars

----------------------------------------------------------------------------
(* Properties *)

Indices == 1..Len(bodies)
Min(a, b) == IF a < b THEN a ELSE b

\* C1: a body with is_sun set is never changed by stepping: its position and
\* velocity are those of its construction and its trail stays empty.
C1_SunNeverMoves ==
    \A i \in Indices :
        bodies[i].is_sun =>
            /\ bodies[i].x = constructed[i].x
            /\ bodies[i].y = constructed[i].y
            /\ bodies[i].x_vel = constructed[i].x_vel
            /\ bodies[i].y_vel = constructed[i].y_vel
            /\ bodies[i].orbit = << >>

\* C1 witness: two steps are done, a sun is in the list and another body moved
C1_Witness ==
    /\ steps >= 2
    /\ \E i, j \in Indices :
          /\ bodies[i].is_sun
          /\ ~bodies[j].is_sun
          /\ Len(hist[j]) >= 2
          /\ bodies[j].x # constructed[j].x

\* C2: no trail is ever longer than 1000 entries, in any state, between the
\* update_position calls of a step as well as at frame boundaries.
C2_TrailBounded ==
    \A i \in Indices : Len(bodies[i].orbit) <= ORBIT_LIMIT

\* C2 witness: a body was updated more than 1000 times, within a step
C2_Witness ==
    /\ pc = "loop"
    /\ \E i \in Indices : Len(hist[i]) > ORBIT_LIMIT /\ Len(bodies[i].orbit) = ORBIT_LIMIT

\* C3: the trail of a body that was updated k >= 1 times holds, oldest first,
\* the positions after its last min(k, 1000) updates, and ends with the
\* current position.
C3_TrailIsSlidingWindow ==
    \A i \in Indices :
        LET k == Len(hist[i])
        IN  (~bodies[i].is_sun /\ k >= 1) =>
               /\ bodies[i].orbit = SubSeq(hist[i], k - Min(k, ORBIT_LIMIT) + 1, k)
               /\ bodies[i].orbit[Len(bodies[i].orbit)] = <<bodies[i].x, bodies[i].y>>

\* C3 witness: more than 1000 updates, so the first positions have been dropped
C3_Witness ==
    \E i \in Indices :
        /\ Len(hist[i]) = ORBIT_LIMIT + 2
        /\ bodies[i].orbit[1] = hist[i][3]
        /\ bodies[i].orbit[1] # hist[i][1]

\* update called with update_count 1: update_position on every body, in list
\* order, from index i on
RECURSIVE UpdateFrom(_, _)
UpdateFrom(bs, i) ==
    IF i > Len(bs) THEN bs ELSE UpdateFrom(update_position(bs, i).bodies, i + 1)

\* n single-step update calls in a row
RECURSIVE SingleSteps(_, _)
SingleSteps(bs, n) ==
    IF n = 0 THEN bs ELSE SingleSteps(UpdateFrom(bs, 1), n - 1)

\* C4: an update call that ran n >= 1 steps leaves the bodies as n single-step
\* update calls from the same start would; so the bodies after any frames are
\* those of as many single steps from construction.
C4_RepeatedEqualsSingleSteps ==
    pc = "render" =>
        /\ frame_count >= 1 => bodies = SingleSteps(frame_start, frame_count)
        /\ bodies = SingleSteps(constructed, steps)

\* C4 witness: an update call with five steps is over, and the bodies moved
C4_Witness ==
    /\ pc = "render"
    /\ frame_count = 5
    /\ Len(bodies) >= 3
    /\ bodies # frame_start

\* the distance between two bodies, as calculate_attraction computes it
Distance(a, b) == Sqrt((b.x - a.x) * (b.x - a.x) + (b.y - a.y) * (b.y - a.y))

Coincide(a, b) == a.x = b.x /\ a.y = b.y

Suns == {i \in Indices : bodies[i].is_sun}

ZeroForce == [fx |-> 0, fy |-> 0]

StepBoundary ==
    \/ pc \in {"events", "update", "render", "done"}
    \/ pc = "loop" /\ idx = 1

\* the derived quantities of body a evaluated on its state and the sun's
DerivedOf(a, sun) ==
    calculate_orbital_properties([a EXCEPT !.distance_to_sun = Distance(a, sun)])

\* C6: after every completed step the derived quantities of each body that is
\* not the sun are those of its current position and velocity and the sun's
\* current position.
C6_DerivedQuantitiesCurrent ==
    (StepBoundary /\ steps >= 1) =>
        \A i \in Indices : \A j \in Suns :
            (~bodies[i].is_sun /\ Cardinality(Suns) = 1) =>
                bodies[i] = DerivedOf(bodies[i], bodies[j])

\* C7: in one step the derived quantities of a body that is not the sun are
\* refreshed once if a sun is in the list and not at all if none is.
C7_RefreshOncePerStep ==
    \A i \in Indices :
        (~bodies[i].is_sun /\ (Len(hist[i]) >= 1 \/ contrib.self = i)) =>
            refreshes[i] = (IF Suns # {} THEN 1 ELSE 0)

\* C7 holds of every list with at most one sun
C7_RefreshOnceUnlessTwoSuns == Cardinality(Suns) <= 1 => C7_RefreshOncePerStep

\* C8: once initialize_solar_system has run, exactly one body of the list is
\* the sun, whatever add_body was called with.
C8_ExactlyOnePrimary == initialized => Cardinality(Suns) = 1

\* C9: every body has a mass above 0, and no step ends in a division by zero.
C9_MassPositive ==
    /\ \A i \in Indices : bodies[i].mass > 0
    /\ error # "ZeroDivisionError"

C11_NoStepWhenPausedOrStopped ==
    (paused \/ TimeSpeed(time_speed_index) = 0) =>
        /\ pc # "loop"
        /\ pc = "render" => (bodies = frame_start /\ frame_count = 0)

\* C11 witness: after steps were run the speed was brought to 0, and an update
\* call has gone by
C11_Witness ==
    /\ pc = "render"
    /\ ~paused
    /\ TimeSpeed(time_speed_index) = 0
    /\ steps >= 1
    /\ \E i \in Indices : Len(bodies[i].orbit) >= 1

\* the derived quantities and the trail of a body just constructed
Fresh(b) ==
    /\ b.orbit = << >>
    /\ b.distance_to_sun = 0
    /\ b.orbital_period = 0
    /\ b.semi_major_axis = 0
    /\ b.velocity = 0

\* a step of add_body: the list changes outside the run and outside
\* initialize_solar_system
AddBodyStep ==
    /\ pc \in {"setup", "done"}
    /\ pc' = pc
    /\ initialized' = initialized
    /\ bodies' # bodies

\* C12: add_body makes the list one longer, leaves the bodies that were in it
\* as and where they were, and puts a body with an empty trail and derived
\* quantities of 0 at its end.
C12_AddBodyAppendsOne ==
    [][AddBodyStep =>
          /\ Len(bodies') = Len(bodies) + 1
          /\ SubSeq(bodies', 1, Len(bodies)) = bodies
          /\ Fresh(bodies'[Len(bodies')])]_vars

\* C12 witness: a body was added behind bodies that have moved
C12_Witness ==
    /\ pc = "done"
    /\ Len(bodies) = Len(PLANET_CONFIGS) + 1
    /\ Fresh(bodies[Len(bodies)])
    /\ bodies[Len(bodies)].name \in AddName
    /\ Len(bodies[2].orbit) >= 2

\* C13: stepping changes no body's name, mass, radius, color or is_sun, and
\* neither the number nor the order of the bodies.
C13_IdentityFieldsKept ==
    /\ Len(bodies) = Len(constructed)
    /\ \A i \in Indices :
          /\ bodies[i].name = constructed[i].name
          /\ bodies[i].mass = constructed[i].mass
          /\ bodies[i].radius = constructed[i].radius
          /\ bodies[i].color = constructed[i].color
          /\ bodies[i].is_sun = constructed[i].is_sun

\* C13 witness: six bodies have been through two steps and have moved
C13_Witness ==
    /\ steps >= 2
    /\ Len(bodies) = Len(PLANET_CONFIGS) + 1
    /\ \E i \in Indices : Len(hist[i]) >= 2 /\ bodies[i].x # constructed[i].x

\* the body of the last update_position call, put back where the call found it
SelfBefore ==
    [bodies[contrib.self] EXCEPT !.x = contrib.before.x, !.y = contrib.before.y,
                                 !.x_vel = contrib.before.x_vel,
                                 !.y_vel = contrib.before.y_vel]

\* every body updated from the same list bs, none seeing another's update
SimultaneousStep(bs) ==
    [i \in 1..Len(bs) |-> update_position(bs, i).bodies[i]]

\* C14: a step updates the bodies one at a time in list order and in place.
\* While the first step of a frame is at body idx, the bodies from idx on are
\* as the frame found them and every non-sun body before idx has already
\* moved; and the forces the last call summed are the attractions of the
\* bodies as they are in the list now, moved or not.
C14_SequentialInPlace ==
    /\ (pc = "loop" /\ rep = frame_count) =>
          /\ \A j \in idx..Len(bodies) : bodies[j] = frame_start[j]
          /\ \A j \in 1..(idx - 1) :
                ~bodies[j].is_sun =>
                    /\ Len(bodies[j].orbit) = Len(frame_start[j].orbit) + 1
                    /\ bodies[j].orbit[Len(bodies[j].orbit)] = <<bodies[j].x, bodies[j].y>>
    /\ (contrib.self \in Indices /\ contrib.moved) =>
          \A k \in 1..Len(contrib.forces) :
              /\ contrib.forces[k].other \in Indices \ {contrib.self}
              /\ [fx |-> contrib.forces[k].fx, fy |-> contrib.forces[k].fy]
                   = calculate_attraction(SelfBefore,
                                          bodies[contrib.forces[k].other]).force

\* C14 witness: a frame of one step has ended in a list that is not the one a
\* simultaneous update of the frame's first list gives
C14_Witness ==
    /\ pc = "render"
    /\ frame_count = 1
    /\ Len(bodies) >= 3
    /\ \E i \in Indices :
          <<bodies[i].x, bodies[i].y>>
            # <<SimultaneousStep(frame_start)[i].x, SimultaneousStep(frame_start)[i].y>>

\* the sum of the first k forces of the last update_position call
RECURSIVE TotalForce(_, _)
TotalForce(forces, k) ==
    IF k = 0 THEN [fx |-> 0, fy |-> 0]
    ELSE [fx |-> TotalForce(forces, k - 1).fx + forces[k].fx,
          fy |-> TotalForce(forces, k - 1).fy + forces[k].fy]

\* the velocity and position update_position gives to a body of mass m that
\* it found at before, under the total force f
Stepped(before, f, m) ==
    [x_vel |-> before.x_vel + Div(f.fx, m) * TIMESTEP,
     y_vel |-> before.y_vel + Div(f.fy, m) * TIMESTEP,
     x |-> before.x + (before.x_vel + Div(f.fx, m) * TIMESTEP) * TIMESTEP,
     y |-> before.y + (before.y_vel + Div(f.fy, m) * TIMESTEP) * TIMESTEP]

\* C15: an update_position call that moved a body summed one force for each
\* other body of the list, in list order and itself left out; the new
\* velocity is the old one plus F / mass * TIMESTEP and the new position is
\* the old one plus the new velocity * TIMESTEP.  Alone in the list the body
\* keeps its velocity and advances by it.
C15_VelocityThenPosition ==
    (contrib.self \in Indices /\ contrib.moved) =>
        /\ Len(contrib.forces) = Len(frame_start) - 1
        /\ \A k \in 1..Len(contrib.forces) :
              contrib.forces[k].other = IF k < contrib.self THEN k ELSE k + 1
        /\ [x_vel |-> bodies[contrib.self].x_vel, y_vel |-> bodies[contrib.self].y_vel,
            x |-> bodies[contrib.self].x, y |-> bodies[contrib.self].y]
             = Stepped(contrib.before,
                       TotalForce(contrib.forces, Len(contrib.forces)),
                       bodies[contrib.self].mass)
        /\ Len(frame_start) = 1 =>
              /\ bodies[contrib.self].x_vel = contrib.before.x_vel
              /\ bodies[contrib.self].y_vel = contrib.before.y_vel
              /\ bodies[contrib.self].x
                   = contrib.before.x + contrib.before.x_vel * TIMESTEP
              /\ bodies[contrib.self].y
                   = contrib.before.y + contrib.before.y_vel * TIMESTEP

\* C15 witness: a body among others was moved by a call whose total force
\* changed its velocity, so that old and new velocity give different positions
C15_Witness ==
    /\ contrib.self \in Indices
    /\ contrib.moved
    /\ Len(contrib.forces) >= 2
    /\ bodies[contrib.self].x_vel # contrib.before.x_vel
    /\ bodies[contrib.self].x # contrib.before.x + contrib.before.x_vel * TIMESTEP

\* the order of a frame in run, as steps from one place of the loop to the next
FrameOrder ==
    \/ pc' = pc
    \/ pc = "setup" /\ pc' = "events"
    \/ pc = "events" /\ pc' = "update"
    \/ pc = "update" /\ pc' = "loop" /\ rep' = frame_count' /\ idx' = 1
    \/ pc = "update" /\ pc' = "render" /\ frame_count' = 0
    \/ pc = "loop" /\ pc' = "render" /\ rep = 1 /\ idx = Len(bodies)
    \/ pc = "loop" /\ pc' = "crashed"
    \/ pc = "render" /\ pc' = "events" /\ running
    \/ pc = "render" /\ pc' = "done" /\ ~running

\* C16: a frame of run is handle_events, then update, then render.  The frame
\* is drawn only when the last body of the last step has been updated, the
\* drawing changes nothing, the buttons act only while events are handled,
\* the bodies change only inside update, and no second update call comes
\* before the frame is drawn.
C16_EventsUpdateRender ==
    [][/\ FrameOrder
       /\ (paused' # paused \/ time_speed_index' # time_speed_index) => pc = "events"
       /\ running' # running => pc \in {"setup", "events"}
       /\ bodies' # bodies => pc \in {"setup", "loop", "done"}
       /\ frame_start' # frame_start => pc = "update"
       /\ pc = "render" => (bodies' = bodies /\ rep = 0 /\ idx = 0)]_vars

\* C16 witness: a frame of two steps or more is being drawn, every step of it
\* done, after an earlier frame
C16_Witness ==
    /\ pc = "render"
    /\ running
    /\ frame_count >= 2
    /\ steps > frame_count
    /\ \A i \in Indices :
          ~bodies[i].is_sun =>
              Len(bodies[i].orbit) = Len(frame_start[i].orbit) + frame_count

\* C17: time_speed_index is always an index of TIME_SPEEDS; Slower and Faster
\* move it by one at most and stop at the ends, and a click on Pause changes
\* the paused flag alone.
C17_SpeedIndexInRange ==
    /\ [](time_speed_index \in 0..(Len(TIME_SPEEDS) - 1))
    /\ [][/\ time_speed_index' \in {time_speed_index - 1, time_speed_index,
                                    time_speed_index + 1}
          /\ time_speed_index' \in 0..(Len(TIME_SPEEDS) - 1)
          /\ paused' # paused =>
                UNCHANGED <<time_speed_index, bodies, running, pc>>]_vars

\* C17 witness: Faster was clicked up to the last index, Pause was clicked,
\* and update looked the multiplier up
C17_Witness ==
    /\ pc = "render"
    /\ time_speed_index = Len(TIME_SPEEDS) - 1
    /\ paused
    /\ frame_count = 0
    /\ steps >= 1

\* the steps of one update call for each entry of TIME_SPEEDS
StepsPerFrame == <<0, 1, 1, 2, 5>>

\* C18: an update call made while not paused runs 0, 1, 1, 2, 5 steps for the
\* multipliers 0, 0.5, 1, 2, 5: when the frame is drawn, every body that moves
\* has that many trail entries more than when the call began.
C18_StepsPerFrame ==
    (pc = "render" /\ ~paused) =>
        /\ frame_count = StepsPerFrame[time_speed_index + 1]
        /\ \A i \in Indices :
              Len(bodies[i].orbit) = Len(frame_start[i].orbit)
                  + (IF bodies[i].is_sun THEN 0 ELSE StepsPerFrame[time_speed_index + 1])

\* C18 witness: a frame at 0.5x moved a body by one step
C18_Witness ==
    /\ pc = "render"
    /\ ~paused
    /\ time_speed_index = 1
    /\ \E i \in Indices : Len(bodies[i].orbit) = Len(frame_start[i].orbit) + 1

============================================================================
